---- MODULE Spec2Model ----
(***************************************************************************)
(* A model of the read-only FAT32 driver of fat32/src: the MBR and EBPB    *)
(* decoders, the FAT chain engine, the directory entry iterator, the file  *)
(* read path, path lookup and the timestamp accessors.                     *)
(*                                                                         *)
(* On-disk structures are byte sequences; the decoders read them at the    *)
(* offsets the packed structs of the source give them.  A sequence index   *)
(* is the byte offset plus one.  Every fallible operation returns a record *)
(* [ok |-> TRUE, val |-> v] or [ok |-> FALSE, err |-> e]; a panic of the   *)
(* Rust code is the error [tag |-> "Panic"], an operation that never       *)
(* returns is the error [tag |-> "Diverges"].                              *)
(***************************************************************************)
EXTENDS Integers, Sequences, FiniteSets, TLC

VARIABLES
    device,     \* the block device: sectors, and the sectors whose read fails
    mbr,        \* result of MasterBootRecord::from(device)
    partition,  \* result of MasterBootRecord::first_fat32
    ebpb,       \* result of BiosParameterBlock::from(device, sector)
    mounted,    \* result of VFat::from(device)
    timestamp,  \* a Timestamp {date, time} taken from a directory record
    fields,     \* the six accessor values read from timestamp
    vfat,       \* the mounted VFat: its geometry fields
    cache,      \* CachedDevice: the sectors it holds
    trace,      \* what the last operation did: FAT lookups, cache gets, device reads
    chain,      \* the last read_chain call: start, dst before, result, dst after
    file,       \* a File handle: cluster, size, read_ptr
    ret,        \* the last File::read call: dst length, result, bytes copied
    got,        \* all bytes the File::read calls on this handle have returned
    iter,       \* an EntryIter: entries, index
    item,       \* what the last EntryIter::next call returned
    yielded,    \* the record indexes of the entries the iterator has yielded
    found,      \* the last Dir::find call on the root: query, result
    opened      \* the last FileSystem::open call: path, result

decoderVars == <<mbr, partition, ebpb, mounted>>
timeVars == <<timestamp, fields>>
fsVars == <<vfat, cache, trace, chain, file, ret, got>>
dirVars == <<iter, item, yielded, found, opened>>
vars == <<device, decoderVars, timeVars, fsVars, dirVars>>

(***************************************************************************)
(* Results and errors                                                      *)
(***************************************************************************)
Ok(v) == [ok |-> TRUE, val |-> v]
Err(e) == [ok |-> FALSE, err |-> e]
NotRun == [ok |-> FALSE, err |-> [tag |-> "NotRun"]]

\* std::io::Error: only its kind is observable to the claims.
IoError(kind) == [tag |-> "Io", kind |-> kind]

Min(a, b) == IF a <= b THEN a ELSE b

\* F applied to the value of v, which is computed once.
Bind(v, F(_)) == CHOOSE out \in {F(x) : x \in {v}} : TRUE

\* Little-endian scalars of a packed struct, at byte offset off.  The disk
\* images keep the top byte of a 32-bit scalar below 128, so that the value
\* stays within the checker's integers.
U8(bytes, off) == bytes[off + 1]
LE16(bytes, off) == bytes[off + 1] + 256 * bytes[off + 2]
LE32(bytes, off) ==
    bytes[off + 1] + 256 * bytes[off + 2] + 65536 * bytes[off + 3]
        + 16777216 * bytes[off + 4]

Zeros(n) == [i \in 1..n |-> 0]

(***************************************************************************)
(* The block device (traits::BlockDevice): read_sector(n, buf) copies the  *)
(* sector into buf and returns the number of bytes written, or fails.      *)
(***************************************************************************)
BlockDevice_read_sector(dev, n, buflen) ==
    IF n \in dev.fails \/ n \notin DOMAIN dev.sectors
    THEN Err(IoError(dev.errkind))
    ELSE LET sec == dev.sectors[n]
             k == Min(buflen, Len(sec))
         IN  Ok([size |-> k, bytes |-> SubSeq(sec, 1, k)])

(***************************************************************************)
(* mbr.rs                                                                  *)
(***************************************************************************)
MBR_SIZE == 512

\* Offsets of the packed MasterBootRecord and PartitionEntry structs.
PartitionTableOffset == 446
PartitionEntrySize == 16
MbrSignatureOffset == 510

PartitionEntry(buf, i) ==
    LET base == PartitionTableOffset + PartitionEntrySize * i
    IN  [boot |-> U8(buf, base),
         part_type |-> U8(buf, base + 4),
         relative_sector |-> LE32(buf, base + 8),
         total_sectors |-> LE32(buf, base + 12)]

\* mem::transmute(buf): the fields the driver reads.
TransmuteMbr(buf) ==
    [partition_table |-> [i \in 0..3 |-> PartitionEntry(buf, i)],
     signature |-> <<U8(buf, MbrSignatureOffset), U8(buf, MbrSignatureOffset + 1)>>]

\* for i in 0..mbr.partition_table.len(): the first bad boot indicator, or 4.
RECURSIVE FirstBadBoot(_, _)
FirstBadBoot(table, i) ==
    IF i >= 4 THEN 4
    ELSE IF table[i].boot # 0 /\ table[i].boot # 128 THEN i
    ELSE FirstBadBoot(table, i + 1)

\* A decoder that checks the boot indicators before the signature.
MasterBootRecord_from_BootFirst(dev) ==
    LET r == BlockDevice_read_sector(dev, 0, MBR_SIZE)
    IN  IF ~r.ok THEN Err(r.err)
        ELSE IF r.val.size # MBR_SIZE THEN Err(IoError("UnexpectedEof"))
        ELSE LET buf == r.val.bytes \o Zeros(MBR_SIZE - r.val.size)
                 m == TransmuteMbr(buf)
                 bad == FirstBadBoot(m.partition_table, 0)
             IN  IF bad < 4
                 THEN Err([tag |-> "UnknownBootIndicator", index |-> bad])
                 ELSE IF m.signature # <<85, 170>> THEN Err([tag |-> "BadSignature"])
                 ELSE Ok(m)

MasterBootRecord_from(dev) ==
    LET r == BlockDevice_read_sector(dev, 0, MBR_SIZE)
    IN  IF ~r.ok THEN Err(r.err)
        ELSE IF r.val.size # MBR_SIZE THEN Err(IoError("UnexpectedEof"))
        ELSE LET buf == r.val.bytes \o Zeros(MBR_SIZE - r.val.size)
                 m == TransmuteMbr(buf)
                 bad == FirstBadBoot(m.partition_table, 0)
             IN  IF m.signature # <<85, 170>> THEN Err([tag |-> "BadSignature"])
                 ELSE IF bad < 4
                 THEN Err([tag |-> "UnknownBootIndicator", index |-> bad])
                 ELSE Ok(m)

\* for partition in self.partition_table.iter(): the first FAT32 record, or 4.
RECURSIVE FirstFat32Index(_, _)
FirstFat32Index(table, i) ==
    IF i >= 4 THEN 4
    ELSE IF table[i].part_type = 11 \/ table[i].part_type = 12 THEN i
    ELSE FirstFat32Index(table, i + 1)

first_fat32(m) ==
    LET i == FirstFat32Index(m.partition_table, 0)
    IN  IF i < 4 THEN Ok(m.partition_table[i])
        ELSE Err(IoError("Other"))

PartitionEntry_sector(p) == p.relative_sector

(***************************************************************************)
(* vfat/ebpb.rs                                                            *)
(***************************************************************************)
EBPB_SIZE == 512

\* mem::transmute(buf): the fields of the packed BiosParameterBlock that the
\* driver reads, at their byte offsets.
TransmuteEbpb(buf) ==
    [bytes_per_sector |-> LE16(buf, 11),
     sectors_per_cluster |-> U8(buf, 13),
     sectors_reserved |-> LE16(buf, 14),
     fats_number |-> U8(buf, 16),
     sectors_per_fat |-> LE32(buf, 36),
     root_dir_cluster |-> LE32(buf, 44),
     signature |-> U8(buf, 66),
     bootable_signature |-> LE16(buf, 510)]

\* impl From<io::Error> for vfat::Error, applied by `?`.
ErrorFromIo(e) == e

\* impl From<mbr::Error> for vfat::Error, applied by `?`.
ErrorFromMbr(e) == e

BiosParameterBlock_from(dev, sector) ==
    LET r == BlockDevice_read_sector(dev, sector, EBPB_SIZE)
    IN  IF ~r.ok THEN Err(ErrorFromIo(r.err))
        ELSE LET buf == r.val.bytes \o Zeros(EBPB_SIZE - r.val.size)
                 e == TransmuteEbpb(buf)
             IN  IF e.signature # 40 /\ e.signature # 41
                 THEN Err([tag |-> "BadSignature"])
                 ELSE Ok(e)

(***************************************************************************)
(* vfat/cluster.rs                                                         *)
(***************************************************************************)
\* Cluster::from: raw_num & !(0xF << 28)
Cluster_from(raw_num) == raw_num % 268435456

Cluster_fat_index(c) == c

\* checked_sub(2)
Cluster_data_index(c) ==
    IF c >= 2 THEN Ok(c - 2) ELSE Err(IoError("Other"))

(***************************************************************************)
(* vfat/vfat.rs: mounting                                                  *)
(***************************************************************************)
VFat_from(dev) ==
    LET m == MasterBootRecord_from(dev)
    IN  IF ~m.ok THEN Err(ErrorFromMbr(m.err))
        ELSE LET p == first_fat32(m.val)
             IN  IF ~p.ok THEN Err(ErrorFromIo(p.err))
                 ELSE LET sector == PartitionEntry_sector(p.val)
                          e == BiosParameterBlock_from(dev, sector)
                      IN  IF ~e.ok THEN Err(e.err)
                          ELSE LET fat_start_sector == sector + e.val.sectors_reserved
                               IN  Ok([bytes_per_sector |-> e.val.bytes_per_sector,
                                       sectors_per_cluster |-> e.val.sectors_per_cluster,
                                       sectors_per_fat |-> e.val.sectors_per_fat,
                                       fat_start_sector |-> fat_start_sector,
                                       data_start_sector |->
                                           fat_start_sector
                                             + e.val.fats_number * e.val.sectors_per_fat,
                                       root_dir_cluster |->
                                           Cluster_from(e.val.root_dir_cluster)])

(***************************************************************************)
(* The sector cache (vfat/cache.rs, CachedDevice).  get(sector) serves a   *)
(* held sector, and otherwise reads it from the device and keeps it; a     *)
(* device error propagates and a short read becomes UnexpectedEof.  The    *)
(* record io threads the cache and what the operation has done so far.     *)
(***************************************************************************)
CachedDevice_get(v, dev, io, sector) ==
    LET io1 == [io EXCEPT !.trace.gets = Append(@, sector)]
        io2 == [io1 EXCEPT !.trace.reads = Append(@, sector)]
    IN  IF sector \in io.cache
        THEN [res |-> Ok(dev.sectors[sector]), io |-> io1]
        ELSE Bind(BlockDevice_read_sector(dev, sector, v.bytes_per_sector),
                  LAMBDA r :
                    IF ~r.ok THEN [res |-> Err(r.err), io |-> io2]
                    ELSE IF r.val.size # v.bytes_per_sector
                    THEN [res |-> Err(IoError("UnexpectedEof")), io |-> io2]
                    ELSE [res |-> Ok(r.val.bytes),
                          io |-> [io2 EXCEPT !.cache = @ \cup {sector}]])

\* impl BlockDevice for CachedDevice: copies the sector into buf.
CachedDevice_read_sector(v, dev, io, sector, buflen) ==
    Bind(CachedDevice_get(v, dev, io, sector),
         LAMBDA g :
           IF ~g.res.ok THEN g
           ELSE [res |-> Ok([size |-> Min(buflen, Len(g.res.val)),
                             bytes |-> SubSeq(g.res.val, 1, Min(buflen, Len(g.res.val)))]),
                 io |-> g.io])

(***************************************************************************)
(* vfat/fat.rs: FatEntry::status, the classification of a 32-bit FAT slot  *)
(***************************************************************************)
FatEntry_status(raw) ==
    LET low == raw % 268435456
    IN  IF low = 0 THEN [tag |-> "Free", next |-> 0]
        ELSE IF low = 1 THEN [tag |-> "Reserved", next |-> 0]
        ELSE IF low <= 268435439 THEN [tag |-> "Data", next |-> Cluster_from(low)]
        ELSE IF low <= 268435446 THEN [tag |-> "Reserved", next |-> 0]
        ELSE IF low = 268435447 THEN [tag |-> "Bad", next |-> 0]
        ELSE [tag |-> "Eoc", next |-> 0]

(***************************************************************************)
(* vfat/vfat.rs: the cluster chain engine                                  *)
(***************************************************************************)
Panic == [tag |-> "Panic", kind |-> "Panic"]
Diverges == [tag |-> "Diverges", kind |-> "Diverges"]

\* size_of::<FatEntry>()
FatEntrySize == 4

\* slice[at..at + Len(bytes)].copy_from_slice(bytes)
Splice(slice, at, bytes) ==
    [i \in 1..Len(slice) |->
        IF at < i /\ i <= at + Len(bytes) THEN bytes[i - at] ELSE slice[i]]

fat_entry(v, dev, io, cluster) ==
    LET cluster_index == Cluster_fat_index(cluster)
        fat_entries_per_sector == v.bytes_per_sector \div FatEntrySize
        sector_of_fat_entry == cluster_index \div fat_entries_per_sector
        fat_entry_index_in_sector == cluster_index % fat_entries_per_sector
    IN  Bind(CachedDevice_get(v, dev, [io EXCEPT !.trace.lookups = Append(@, cluster)],
                              v.fat_start_sector + sector_of_fat_entry),
             LAMBDA g :
               IF ~g.res.ok THEN g
               ELSE [res |-> Ok(LE32(g.res.val, FatEntrySize * fat_entry_index_in_sector)),
                     io |-> g.io])

\* for sec in start_sector..last_sector_to_read
RECURSIVE ReadSectors(_, _, _, _, _, _, _)
ReadSectors(v, dev, io, sec, last, slice, read) ==
    IF sec >= last THEN [res |-> Ok(read), slice |-> slice, io |-> io]
    ELSE Bind(CachedDevice_read_sector(v, dev, io, sec, Len(slice) - read),
              LAMBDA r :
                IF ~r.res.ok THEN [res |-> r.res, slice |-> slice, io |-> r.io]
                ELSE Bind(Splice(slice, read, r.res.val.bytes),
                          LAMBDA filled :
                            ReadSectors(v, dev, r.io, sec + 1, last, filled,
                                        read + r.res.val.size)))

read_cluster(v, dev, io, cluster, offset, slice) ==
    LET di == Cluster_data_index(cluster)
    IN  IF ~di.ok THEN [res |-> di, slice |-> slice, io |-> io]
        ELSE LET first_sector_of_cluster ==
                     v.data_start_sector + di.val * v.sectors_per_cluster
                 last_sector_of_cluster == first_sector_of_cluster + v.sectors_per_cluster
                 start_sector == first_sector_of_cluster + offset
                 buf_size_in_sectors == Len(slice) \div v.bytes_per_sector
                 last_sector_to_read ==
                     Min(last_sector_of_cluster, start_sector + buf_size_in_sectors)
             IN  ReadSectors(v, dev, io, start_sector, last_sector_to_read, slice, 0)

\* buf.resize(buf_len + cluster size, 0); read_cluster(cluster, 0, &mut buf[read..])
AppendCluster(v, dev, io, cluster, read, buf) ==
    Bind(buf \o Zeros(v.bytes_per_sector * v.sectors_per_cluster),
         LAMBDA grown :
           Bind(read_cluster(v, dev, io, cluster, 0, SubSeq(grown, read + 1, Len(grown))),
                LAMBDA rc :
                  [res |-> rc.res, buf |-> SubSeq(grown, 1, read) \o rc.slice,
                   io |-> rc.io]))

\* A chain end that reads the last cluster whatever its status is.
ChainEnd_ReadsAnyStatus(v, dev, io, cluster, read, buf) ==
    Bind(fat_entry(v, dev, io, cluster),
         LAMBDA e :
           IF ~e.res.ok THEN [res |-> e.res, buf |-> buf, io |-> e.io]
           ELSE Bind(AppendCluster(v, dev, e.io, cluster, read, buf),
                     LAMBDA a :
                       IF ~a.res.ok THEN a
                       ELSE IF FatEntry_status(e.res.val).tag = "Eoc"
                       THEN [res |-> Ok(read + a.res.val), buf |-> a.buf, io |-> a.io]
                       ELSE [res |-> Err(IoError("Other")), buf |-> a.buf, io |-> a.io]))

\* The match on the status of the first entry that is not Data.
ChainEnd(v, dev, io, cluster, read, buf) ==
    Bind(fat_entry(v, dev, io, cluster),
         LAMBDA e :
           IF ~e.res.ok THEN [res |-> e.res, buf |-> buf, io |-> e.io]
           ELSE IF FatEntry_status(e.res.val).tag = "Eoc"
           THEN Bind(AppendCluster(v, dev, e.io, cluster, read, buf),
                     LAMBDA a :
                       IF ~a.res.ok THEN a
                       ELSE [res |-> Ok(read + a.res.val), buf |-> a.buf, io |-> a.io])
           ELSE [res |-> Err(IoError("Other")), buf |-> buf, io |-> e.io])

\* while let Status::Data(next_cluster) = self.fat_entry(cluster)?.status().
\* seen holds the clusters already visited: the FAT does not change, so a
\* second visit of a cluster repeats for ever, with dst growing.
RECURSIVE ChainLoop(_, _, _, _, _, _, _)
ChainLoop(v, dev, io, cluster, read, buf, seen) ==
    Bind(fat_entry(v, dev, io, cluster),
         LAMBDA e :
           IF ~e.res.ok THEN [res |-> e.res, buf |-> buf, io |-> e.io]
           ELSE IF FatEntry_status(e.res.val).tag # "Data"
           THEN ChainEnd(v, dev, e.io, cluster, read, buf)
           ELSE IF cluster \in seen
           THEN [res |-> Err(Diverges), buf |-> buf, io |-> e.io]
           ELSE Bind(AppendCluster(v, dev, e.io, cluster, read, buf),
                     LAMBDA a :
                       IF ~a.res.ok THEN a
                       ELSE Bind([next |-> FatEntry_status(e.res.val).next,
                                  read |-> read + a.res.val,
                                  seen |-> seen \cup {cluster}],
                                 LAMBDA n :
                                   ChainLoop(v, dev, a.io, n.next, n.read, a.buf, n.seen))))

read_chain(v, dev, io, start, buf) == ChainLoop(v, dev, io, start, 0, buf, {})

(***************************************************************************)
(* vfat/file.rs                                                            *)
(***************************************************************************)
\* A read that copies from the start of the chain, not from the cursor.
File_read_FromStart(v, dev, io, f, buflen) ==
    IF f.size = 0 THEN [res |-> Ok(0), file |-> f, bytes |-> <<>>, io |-> io]
    ELSE Bind(read_chain(v, dev, io, f.cluster, <<>>),
              LAMBDA rc :
                LET left_to_read == f.size - f.read_ptr
                    bytes_to_copy == Min(left_to_read, buflen)
                IN  IF ~rc.res.ok
                    THEN [res |-> rc.res, file |-> f, bytes |-> <<>>, io |-> rc.io]
                    ELSE IF f.read_ptr + bytes_to_copy > Len(rc.buf)
                    THEN [res |-> Err(Panic), file |-> f, bytes |-> <<>>, io |-> rc.io]
                    ELSE [res |-> Ok(bytes_to_copy),
                          file |-> [f EXCEPT !.read_ptr = @ + bytes_to_copy],
                          bytes |-> SubSeq(rc.buf, 1, bytes_to_copy),
                          io |-> rc.io])

\* A read without the early return for an empty file.
File_read_NoSizeCheck(v, dev, io, f, buflen) ==
    Bind(read_chain(v, dev, io, f.cluster, <<>>),
         LAMBDA rc :
           LET left_to_read == f.size - f.read_ptr
               bytes_to_copy == Min(left_to_read, buflen)
           IN  IF ~rc.res.ok
               THEN [res |-> rc.res, file |-> f, bytes |-> <<>>, io |-> rc.io]
               ELSE IF f.read_ptr + bytes_to_copy > Len(rc.buf)
               THEN [res |-> Err(Panic), file |-> f, bytes |-> <<>>, io |-> rc.io]
               ELSE [res |-> Ok(bytes_to_copy),
                     file |-> [f EXCEPT !.read_ptr = @ + bytes_to_copy],
                     bytes |-> SubSeq(rc.buf, f.read_ptr + 1, f.read_ptr + bytes_to_copy),
                     io |-> rc.io])

\* A read that moves the cursor before it reads the chain.
File_read_AdvancesFirst(v, dev, io, f, buflen) ==
    IF f.size = 0 THEN [res |-> Ok(0), file |-> f, bytes |-> <<>>, io |-> io]
    ELSE Bind(read_chain(v, dev, io, f.cluster, <<>>),
              LAMBDA rc :
                LET left_to_read == f.size - f.read_ptr
                    bytes_to_copy == Min(left_to_read, buflen)
                    moved == [f EXCEPT !.read_ptr = @ + bytes_to_copy]
                IN  IF ~rc.res.ok
                    THEN [res |-> rc.res, file |-> moved, bytes |-> <<>>, io |-> rc.io]
                    ELSE IF f.read_ptr + bytes_to_copy > Len(rc.buf)
                    THEN [res |-> Err(Panic), file |-> moved, bytes |-> <<>>, io |-> rc.io]
                    ELSE [res |-> Ok(bytes_to_copy),
                          file |-> moved,
                          bytes |-> SubSeq(rc.buf, f.read_ptr + 1, f.read_ptr + bytes_to_copy),
                          io |-> rc.io])

File_read(v, dev, io, f, buflen) ==
    IF f.size = 0 THEN [res |-> Ok(0), file |-> f, bytes |-> <<>>, io |-> io]
    ELSE Bind(read_chain(v, dev, io, f.cluster, <<>>),
              LAMBDA rc :
                LET left_to_read == f.size - f.read_ptr
                    bytes_to_copy == Min(left_to_read, buflen)
                IN  IF ~rc.res.ok
                    THEN [res |-> rc.res, file |-> f, bytes |-> <<>>, io |-> rc.io]
                    ELSE IF f.read_ptr + bytes_to_copy > Len(rc.buf)
                    THEN [res |-> Err(Panic), file |-> f, bytes |-> <<>>, io |-> rc.io]
                    ELSE [res |-> Ok(bytes_to_copy),
                          file |-> [f EXCEPT !.read_ptr = @ + bytes_to_copy],
                          bytes |-> SubSeq(rc.buf, f.read_ptr + 1,
                                           f.read_ptr + bytes_to_copy),
                          io |-> rc.io])

(***************************************************************************)
(* vfat/dir.rs: the 32-byte directory records and the entry iterator.      *)
(* A name is the sequence of its characters' code points.                  *)
(***************************************************************************)
DirEntrySize == 32

\* VFatUnknownDirEntry
Unknown_is_deleted(rec) == U8(rec, 0) = 229
Unknown_is_end(rec) == U8(rec, 0) = 0
Unknown_is_lfn(rec) == U8(rec, 11) = 15

\* VFatLfnDirEntry
Lfn_is_deleted(rec) == U8(rec, 0) = 229
Lfn_name1(rec) == [k \in 1..5 |-> LE16(rec, 1 + 2 * (k - 1))]
Lfn_name2(rec) == [k \in 1..6 |-> LE16(rec, 14 + 2 * (k - 1))]
Lfn_name3(rec) == [k \in 1..2 |-> LE16(rec, 28 + 2 * (k - 1))]

\* VFatRegularDirEntry
Regular_name(rec) == SubSeq(rec, 1, 8)
Regular_ext(rec) == SubSeq(rec, 9, 11)
Regular_attr(rec) == U8(rec, 11)
Regular_size(rec) == LE32(rec, 28)

Regular_metadata(rec) ==
    [attr |-> Regular_attr(rec),
     created |-> [date |-> LE16(rec, 16), time |-> LE16(rec, 14)],
     accessed |-> [date |-> LE16(rec, 18), time |-> 0],
     modified |-> [date |-> LE16(rec, 24), time |-> LE16(rec, 22)]]

\* ((self.cluster_hi as u32) << 16) | self.cluster_lo as u32
Regular_cluster(rec) == Cluster_from(LE16(rec, 20) * 65536 + LE16(rec, 26))

\* self.attr.0 as u8 & 0x10 != 0
Regular_is_dir(rec) == (Regular_attr(rec) \div 16) % 2 = 1

None == [some |-> FALSE, val |-> <<>>]
Some(v) == [some |-> TRUE, val |-> v]

\* arr.iter().take_while(|x| **x != 0x0000 && **x != 0xFFFF)
RECURSIVE TakeWhileUcs2(_)
TakeWhileUcs2(arr) ==
    IF arr = <<>> \/ Head(arr) = 0 \/ Head(arr) = 65535 THEN <<>>
    ELSE <<Head(arr)>> \o TakeWhileUcs2(Tail(arr))

\* std::char::decode_utf16(..).map(|r| r.unwrap_or(REPLACEMENT_CHARACTER))
REPLACEMENT_CHARACTER == 65533
IsSurrogate(u) == 55296 <= u /\ u <= 57343
IsLowSurrogate(u) == 56320 <= u /\ u <= 57343

RECURSIVE DecodeUtf16(_)
DecodeUtf16(units) ==
    IF units = <<>> THEN <<>>
    ELSE LET u == Head(units)
             rest == Tail(units)
         IN  IF ~IsSurrogate(u) THEN <<u>> \o DecodeUtf16(rest)
             ELSE IF IsLowSurrogate(u) THEN <<REPLACEMENT_CHARACTER>> \o DecodeUtf16(rest)
             ELSE IF rest = <<>> \/ ~IsLowSurrogate(Head(rest))
             THEN <<REPLACEMENT_CHARACTER>> \o DecodeUtf16(rest)
             ELSE <<65536 + (u - 55296) * 1024 + (Head(rest) - 56320)>>
                      \o DecodeUtf16(Tail(rest))

ucs_2_to_string(arr) == DecodeUtf16(TakeWhileUcs2(arr))

\* arr.iter().take_while(|x| **x != 0x00 && **x != 0x20).map(|&c| c as char)
RECURSIVE TakeWhileAscii(_)
TakeWhileAscii(arr) ==
    IF arr = <<>> \/ Head(arr) = 0 \/ Head(arr) = 32 THEN <<>>
    ELSE <<Head(arr)>> \o TakeWhileAscii(Tail(arr))

\* A conversion that gives Some of the empty string, never None.
ascii_to_string_KeepsEmpty(arr) == Some(TakeWhileAscii(arr))

ascii_to_string(arr) ==
    IF TakeWhileAscii(arr) = <<>> THEN None ELSE Some(TakeWhileAscii(arr))

\* The name of a regular entry without LFN records; unwrap() of None panics.
ShortName(rec) ==
    LET name == ascii_to_string(Regular_name(rec))
        ext == ascii_to_string(Regular_ext(rec))
    IN  IF ~name.some THEN None
        ELSE IF ~ext.some THEN name
        ELSE Some(name.val \o <<46>> \o ext.val)

\* Entry::File(File {..}) or Entry::Dir(Dir {..}) of a regular record.
EntryOf(rec, name) ==
    [kind |-> IF Regular_is_dir(rec) THEN "Dir" ELSE "File",
     name |-> name,
     cluster |-> Regular_cluster(rec),
     size |-> IF Regular_is_dir(rec) THEN 0 ELSE Regular_size(rec),
     metadata |-> Regular_metadata(rec)]

NoEntry == [kind |-> "None", name |-> <<>>, cluster |-> 0, size |-> 0,
            metadata |-> Regular_metadata(Zeros(DirEntrySize))]

\* What a call of next returns, and the iterator's index after it.
Stopped(tag, index) == [tag |-> tag, entry |-> NoEntry, index |-> index]
Emitted(entry, index) == [tag |-> "Some", entry |-> entry, index |-> index]

\* 13 (5+6+2) characters in LFN entry. Up to 20 LFN entries can be chained.
LfnUnits == 13
LfnEntries == 20

\* while !unknown_entry.is_end(): skips deleted records and returns the
\* first regular one. self.index is not advanced past the returned record.
RECURSIVE RegularLoop(_, _, _, _)
RegularLoop(entries, index, lfn_name, lfn_found) ==
    IF index >= Len(entries) THEN Stopped("Panic", index)
    ELSE LET rec == entries[index + 1]
         IN  IF Unknown_is_end(rec) THEN Stopped("None", index)
             ELSE IF Unknown_is_deleted(rec)
             THEN RegularLoop(entries, index + 1, lfn_name, lfn_found)
             ELSE IF lfn_found
             THEN Emitted(EntryOf(rec, ucs_2_to_string(lfn_name)), index)
             ELSE IF ~ShortName(rec).some THEN Stopped("Panic", index)
             ELSE Emitted(EntryOf(rec, ShortName(rec).val), index)

\* while unknown_entry.is_lfn(): collects the fragments of the LFN records
\* at the iterator's position.
RECURSIVE LfnLoop(_, _, _, _)
LfnLoop(entries, index, lfn_name, lfn_found) ==
    IF index >= Len(entries) THEN Stopped("Panic", index)
    ELSE LET rec == entries[index + 1]
             ordinal == U8(rec, 0) % 32
             pos == (ordinal - 1) * LfnUnits
         IN  IF ~Unknown_is_lfn(rec)
             THEN RegularLoop(entries, index, lfn_name, lfn_found)
             ELSE IF Lfn_is_deleted(rec)
             THEN LfnLoop(entries, index + 1, lfn_name, lfn_found)
             ELSE IF ordinal = 0 \/ pos + LfnUnits > LfnUnits * LfnEntries
             THEN Stopped("Panic", index)
             ELSE Bind(Splice(lfn_name, pos,
                              Lfn_name1(rec) \o Lfn_name2(rec) \o Lfn_name3(rec)),
                       LAMBDA filled : LfnLoop(entries, index + 1, filled, TRUE))

EntryIter_next(entries, index) ==
    LfnLoop(entries, index, Zeros(LfnUnits * LfnEntries), FALSE)

\* buf.cast(): the bytes of the chain as 32-byte records.
CastEntries(buf) ==
    [i \in 1..(Len(buf) \div DirEntrySize) |->
        SubSeq(buf, DirEntrySize * (i - 1) + 1, DirEntrySize * i)]

\* Dir::entries
Dir_entries(v, dev, io, dir) ==
    Bind(read_chain(v, dev, io, dir.cluster, <<>>),
         LAMBDA rc :
           IF ~rc.res.ok THEN [res |-> rc.res, io |-> rc.io]
           ELSE [res |-> Ok([live |-> TRUE, entries |-> CastEntries(rc.buf), index |-> 0]),
                 io |-> rc.io])

\* u8::to_ascii_lowercase and str::eq_ignore_ascii_case
AsciiLower(c) == IF 65 <= c /\ c <= 90 THEN c + 32 ELSE c
eq_ignore_ascii_case(a, b) ==
    /\ Len(a) = Len(b)
    /\ \A i \in 1..Len(a) : AsciiLower(a[i]) = AsciiLower(b[i])

\* for entry in self.entries()?: the iterator is deterministic in its
\* index, so a call at an index already called at repeats for ever.
RECURSIVE FindLoop(_, _, _, _)
FindLoop(entries, index, name, called) ==
    IF index \in called THEN Err(Diverges)
    ELSE Bind(EntryIter_next(entries, index),
              LAMBDA n :
                IF n.tag = "Panic" THEN Err(Panic)
                ELSE IF n.tag = "None" THEN Err(IoError("NotFound"))
                ELSE IF eq_ignore_ascii_case(n.entry.name, name) THEN Ok(n.entry)
                ELSE FindLoop(entries, n.index, name, called \cup {index}))

\* Dir::find. A query is [utf8, chars]: to_str() is None when utf8 is FALSE.
Dir_find(v, dev, io, dir, query) ==
    IF ~query.utf8 THEN [res |-> Err(IoError("InvalidInput")), io |-> io]
    ELSE Bind(Dir_entries(v, dev, io, dir),
              LAMBDA it :
                IF ~it.res.ok THEN it
                ELSE [res |-> FindLoop(it.res.val.entries, it.res.val.index,
                                       query.chars, {}),
                      io |-> it.io])

\* Dir::root
Dir_root(v) ==
    [kind |-> "Dir", name |-> <<47>>, cluster |-> v.root_dir_cluster, size |-> 0,
     metadata |-> Regular_metadata(Zeros(DirEntrySize))]

\* FileSystem::open: path is the sequence of its components.
RECURSIVE OpenLoop(_, _, _, _, _)
OpenLoop(v, dev, io, cur_dir, comps) ==
    IF comps = <<>> THEN [res |-> Ok(cur_dir), io |-> io]
    ELSE LET comp == Head(comps)
         IN  IF comp.kind = "RootDir" THEN OpenLoop(v, dev, io, cur_dir, Tail(comps))
             ELSE IF comp.kind # "Normal" THEN [res |-> Err(Panic), io |-> io]
             ELSE IF cur_dir.kind # "Dir"
             THEN [res |-> Err(IoError("NotFound")), io |-> io]
             ELSE Bind(Dir_find(v, dev, io, cur_dir, comp.name),
                       LAMBDA f :
                         IF ~f.res.ok THEN f
                         ELSE OpenLoop(v, dev, f.io, f.res.val, Tail(comps)))

FileSystem_open(v, dev, io, path) == OpenLoop(v, dev, io, Dir_root(v), path)

(***************************************************************************)
(* Disk images for the decoders: sector 0 holds a master boot record,      *)
(* sector 1 the boot sector of the partition every record points at.       *)
(***************************************************************************)
\* A 16-byte partition record: boot, CHS, type, CHS, relative sector, total.
PartitionBytes(p) ==
    <<p.boot, 0, 0, 0, p.part_type, 0, 0, 0, 1, 0, 0, 0, 8, 0, 0, 0>>

MbrSector(parts, sig) ==
    Zeros(PartitionTableOffset)
        \o PartitionBytes(parts[1]) \o PartitionBytes(parts[2])
        \o PartitionBytes(parts[3]) \o PartitionBytes(parts[4])
        \o sig

\* A boot sector: 2 reserved sectors, 2 FATs of 3 sectors, root cluster 2
\* written with a set top nibble.
EbpbSector(sig66, trailer) ==
    [i \in 1..EBPB_SIZE |->
        CASE i = 12 -> 0  [] i = 13 -> 2
          [] i = 14 -> 1
          [] i = 15 -> 2
          [] i = 17 -> 2
          [] i = 37 -> 3
          [] i = 45 -> 2  [] i = 48 -> 112
          [] i = 67 -> sig66
          [] i = 511 -> trailer[1]  [] i = 512 -> trailer[2]
          [] OTHER -> 0]

PartitionRecords ==
    {[boot |-> 0, part_type |-> 11], [boot |-> 128, part_type |-> 12],
     [boot |-> 0, part_type |-> 131], [boot |-> 1, part_type |-> 11]}

Signatures == {<<85, 170>>, <<0, 0>>, <<170, 85>>}

EbpbSignatures == {40, 41, 0, 170}

GoodMbrSector ==
    MbrSector(<<[boot |-> 0, part_type |-> 131], [boot |-> 128, part_type |-> 12],
                [boot |-> 0, part_type |-> 11], [boot |-> 0, part_type |-> 0]>>,
              <<85, 170>>)

GoodEbpbSector == EbpbSector(41, <<85, 170>>)

\* A device whose sector 0 is cut to len bytes (a device shorter than a
\* sector gives a short read).
Device(sector0, len, sector1, fails) ==
    [sectors |-> (0 :> SubSeq(sector0, 1, len)) @@ (1 :> sector1),
     fails |-> fails,
     errkind |-> "TimedOut"]

NoTimestamp == [date |-> 0, time |-> 0]
NoFields == [year |-> 0, month |-> 0, day |-> 0, hour |-> 0, minute |-> 0, second |-> 0]

NoTrace == [lookups |-> <<>>, gets |-> <<>>, reads |-> <<>>]
NoVFat == [bytes_per_sector |-> 0, sectors_per_cluster |-> 0, sectors_per_fat |-> 0,
           fat_start_sector |-> 0, data_start_sector |-> 0, root_dir_cluster |-> 0]
NoChain == [start |-> 0, before |-> <<>>, faults |-> {}, res |-> NotRun, dst |-> <<>>]
NoFile == [cluster |-> 0, size |-> 0, read_ptr |-> 0]
NoRet == [len |-> 0, faults |-> {}, before |-> 0, res |-> NotRun, bytes |-> <<>>]

DecoderIdle == mbr = NotRun /\ partition = NotRun /\ ebpb = NotRun /\ mounted = NotRun
TimeIdle == timestamp = NoTimestamp /\ fields = NoFields
FsIdle ==
    /\ vfat = NoVFat /\ cache = {} /\ trace = NoTrace /\ chain = NoChain
    /\ file = NoFile /\ ret = NoRet /\ got = <<>>

NoIter == [live |-> FALSE, entries |-> <<>>, index |-> 0]
NoItem == [tag |-> "NotRun"]
NoFound == [query |-> [utf8 |-> FALSE, chars |-> <<>>], faults |-> {}, res |-> NotRun, gets |-> <<>>]
NoOpened == [path |-> <<>>, faults |-> {}, res |-> NotRun]
DirIdle ==
    /\ iter = NoIter /\ item = NoItem /\ yielded = <<>>
    /\ found = NoFound /\ opened = NoOpened

(***************************************************************************)
(* SpecMbr: decoding the master boot record and locating the partition     *)
(***************************************************************************)
InitMbr ==
    /\ DecoderIdle /\ TimeIdle /\ FsIdle /\ DirIdle
    /\ \E parts \in PartitionRecords \X PartitionRecords \X PartitionRecords
                      \X PartitionRecords,
          sig \in Signatures, len \in {MBR_SIZE - 1, MBR_SIZE}, fails \in {{}, {0}} :
          device = Device(MbrSector(parts, sig), len, GoodEbpbSector, fails)

ReadMbr ==
    /\ mbr = NotRun
    /\ mbr' = MasterBootRecord_from(device)
    /\ UNCHANGED <<device, partition, ebpb, mounted, timeVars, fsVars, dirVars>>

FirstFat32 ==
    /\ mbr.ok
    /\ partition = NotRun
    /\ partition' = first_fat32(mbr.val)
    /\ UNCHANGED <<device, mbr, ebpb, mounted, timeVars, fsVars, dirVars>>

Mount ==
    /\ mounted = NotRun
    /\ mounted' = VFat_from(device)
    /\ UNCHANGED <<device, mbr, partition, ebpb, timeVars, fsVars, dirVars>>

NextMbr == ReadMbr \/ FirstFat32 \/ Mount

SpecMbr == InitMbr /\ [][NextMbr]_vars

(***************************************************************************)
(* SpecEbpb: decoding the partition's boot sector                          *)
(***************************************************************************)
InitEbpb ==
    /\ DecoderIdle /\ TimeIdle /\ FsIdle /\ DirIdle
    /\ \E sig66 \in EbpbSignatures, trailer \in Signatures, fails \in {{}, {1}},
          parts \in PartitionRecords \X PartitionRecords :
          device = Device(MbrSector(<<parts[1], parts[2],
                                      [boot |-> 0, part_type |-> 0],
                                      [boot |-> 0, part_type |-> 0]>>, <<85, 170>>),
                          MBR_SIZE, EbpbSector(sig66, trailer), fails)

ReadEbpb ==
    /\ ebpb = NotRun
    /\ ebpb' = BiosParameterBlock_from(device, 1)
    /\ UNCHANGED <<device, mbr, partition, mounted, timeVars, fsVars, dirVars>>

NextEbpb == ReadEbpb \/ Mount

SpecEbpb == InitEbpb /\ [][NextEbpb]_vars

(***************************************************************************)
(* vfat/metadata.rs: the Timestamp accessors                               *)
(***************************************************************************)
\* ((self.date.0 & 0b1111_1110_0000_0000) >> 9) as usize + 1980
Timestamp_year(ts) == (ts.date \div 512) + 1980

\* ((self.date.0 & 0b0000_0001_1110_0000) >> 5) as u8 + 1
Timestamp_month(ts) == ((ts.date \div 32) % 16) + 1

\* (self.date.0 & 0b0000_0000_0001_1111) as u8 + 1
Timestamp_day(ts) == (ts.date % 32) + 1

\* ((self.time.0 & 0b1111_1000_0000_0000) >> 11) as u8
Timestamp_hour(ts) == ts.time \div 2048

\* ((self.time.0 & 0b0000_0111_1110_0000) >> 5) as u8
Timestamp_minute(ts) == (ts.time \div 32) % 64

\* (self.time.0 & 0b0000_0000_0001_1111) as u8 * 2
Timestamp_second(ts) == (ts.time % 32) * 2

\* The on-disk words the accessors are applied to: every month field, the
\* ends of the other fields.
DateWords ==
    {y * 512 + m * 32 + d : y \in {0, 38, 127}, m \in 0..15, d \in {0, 1, 30, 31}} \ {0}
TimeWords == {h * 2048 + m * 32 + s : h \in {0, 23, 31}, m \in {0, 59, 63}, s \in {0, 29, 31}}

InitTime ==
    /\ DecoderIdle /\ TimeIdle /\ FsIdle /\ DirIdle
    /\ device = Device(GoodMbrSector, MBR_SIZE, GoodEbpbSector, {})

\* VFatRegularDirEntry::metadata: a Timestamp made of two on-disk words.
TakeTimestamp ==
    /\ timestamp = NoTimestamp
    /\ \E d \in DateWords, t \in TimeWords : timestamp' = [date |-> d, time |-> t]
    /\ fields' = NoFields
    /\ UNCHANGED <<device, decoderVars, fsVars, dirVars>>

ReadFields ==
    /\ timestamp # NoTimestamp
    /\ fields = NoFields
    /\ fields' = [year |-> Timestamp_year(timestamp),
                  month |-> Timestamp_month(timestamp),
                  day |-> Timestamp_day(timestamp),
                  hour |-> Timestamp_hour(timestamp),
                  minute |-> Timestamp_minute(timestamp),
                  second |-> Timestamp_second(timestamp)]
    /\ UNCHANGED <<device, decoderVars, timestamp, fsVars, dirVars>>

NextTime == TakeTimestamp \/ ReadFields

SpecTime == InitTime /\ [][NextTime]_vars

(***************************************************************************)
(* A mounted volume: 16-byte sectors, 2 sectors per cluster, the partition *)
(* at sector 1 with 2 reserved sectors and 2 FATs of 3 sectors each.       *)
(***************************************************************************)
Geometry ==
    [bytes_per_sector |-> 16, sectors_per_cluster |-> 2, sectors_per_fat |-> 3,
     fat_start_sector |-> 3, data_start_sector |-> 9, root_dir_cluster |-> 2]

ClusterBytes == Geometry.bytes_per_sector * Geometry.sectors_per_cluster
FatClusters == 0..(Geometry.sectors_per_fat * (Geometry.bytes_per_sector \div FatEntrySize) - 1)
DataClusters == FatClusters \ {0, 1}

LE32Bytes(x) == <<x % 256, (x \div 256) % 256, (x \div 65536) % 256, x \div 16777216>>

\* The logical sectors of a volume with FAT table and cluster contents data.
VolumeSectors(table, data) ==
    LET per == Geometry.bytes_per_sector \div FatEntrySize
        fatSector(k) ==
            LE32Bytes(table[per * k]) \o LE32Bytes(table[per * k + 1])
                \o LE32Bytes(table[per * k + 2]) \o LE32Bytes(table[per * k + 3])
        lastSector == Geometry.data_start_sector
                        + Cardinality(DataClusters) * Geometry.sectors_per_cluster - 1
    IN  [s \in Geometry.fat_start_sector..lastSector |->
            IF s < Geometry.data_start_sector
            THEN fatSector((s - Geometry.fat_start_sector) % Geometry.sectors_per_fat)
            ELSE LET c == 2 + (s - Geometry.data_start_sector) \div Geometry.sectors_per_cluster
                     j == (s - Geometry.data_start_sector) % Geometry.sectors_per_cluster
                 IN  SubSeq(data[c], Geometry.bytes_per_sector * j + 1,
                            Geometry.bytes_per_sector * (j + 1))]

Volume(table, data) ==
    [sectors |-> VolumeSectors(table, data), fails |-> {}, errkind |-> "TimedOut"]

\* File contents: every byte of every cluster differs from its neighbours.
FileData == [c \in DataClusters |-> [i \in 1..ClusterBytes |-> (c * ClusterBytes + i) % 256]]

\* FAT slots: Free, Reserved (1), Data 2, Data 3 with a set top nibble,
\* Data 4, Data 5, Reserved (0x0FFFFFF0), Bad, Eoc (0x0FFFFFF8, 0x0FFFFFFF).
FatFree == 0
FatBad == 268435447
FatEoc == 268435448
FatSlots == {FatFree, 1, 2, 268435459, 4, 5, 268435440, FatBad, FatEoc, 268435455}

\* Slots 0 and 1 hold the media descriptor and the end-of-chain marker.
FatTable(e2, e3, e4) ==
    [c \in FatClusters |->
        CASE c = 0 -> FatEoc
          [] c = 1 -> 268435455
          [] c = 2 -> e2
          [] c = 3 -> e3
          [] c = 4 -> e4
          [] OTHER -> FatFree]

\* The device faults an operation may meet: none, the first FAT sector, the
\* second sector of cluster 3.
Faults == {{}, {Geometry.fat_start_sector}, {Geometry.data_start_sector + 3}}

IoOf == [cache |-> cache, trace |-> NoTrace]

(***************************************************************************)
(* SpecChain: read_chain over every FAT of three data clusters             *)
(***************************************************************************)
InitChain ==
    /\ DecoderIdle /\ TimeIdle /\ DirIdle
    /\ \E e2 \in FatSlots, e3 \in FatSlots, e4 \in FatSlots :
          device = Volume(FatTable(e2, e3, e4), FileData)
    /\ vfat = Geometry
    /\ cache = {}
    /\ trace = NoTrace
    /\ chain = NoChain
    /\ file = NoFile
    /\ ret = NoRet
    /\ got = <<>>

ReadChain ==
    /\ chain = NoChain
    /\ \E start \in 0..4, before \in {<<>>, <<7, 7, 7>>}, f \in Faults :
          \E r \in {read_chain(vfat, [device EXCEPT !.fails = f], IoOf, start, before)} :
              /\ chain' = [start |-> start, before |-> before, faults |-> f,
                           res |-> r.res, dst |-> r.buf]
              /\ cache' = r.io.cache
              /\ trace' = r.io.trace
    /\ UNCHANGED <<device, decoderVars, timeVars, vfat, file, ret, got, dirVars>>

NextChain == ReadChain

SpecChain == InitChain /\ [][NextChain]_vars

(***************************************************************************)
(* SpecFile: successive File::read calls on one handle                     *)
(***************************************************************************)
FileSizes == {0, 1, ClusterBytes, ClusterBytes + 1, 2 * ClusterBytes + 5}
DstLens == {0, 20, 3 * ClusterBytes}
FileFatSlots == {FatFree, 268435459, 4, FatEoc}

InitFile ==
    /\ DecoderIdle /\ TimeIdle /\ DirIdle
    /\ \E e2 \in FileFatSlots, e3 \in FileFatSlots :
          device = Volume(FatTable(e2, e3, FatEoc), FileData)
    /\ vfat = Geometry
    /\ cache = {}
    /\ trace = NoTrace
    /\ chain = NoChain
    /\ \E c \in {0, 2, 3}, size \in FileSizes :
          file = [cluster |-> c, size |-> size, read_ptr |-> 0]
    /\ ret = NoRet
    /\ got = <<>>

Read ==
    /\ \E len \in DstLens, f \in Faults :
          \E r \in {File_read(vfat, [device EXCEPT !.fails = f], IoOf, file, len)} :
              /\ file' = r.file
              /\ ret' = [len |-> len, faults |-> f, before |-> file.read_ptr,
                         res |-> r.res, bytes |-> r.bytes]
              /\ got' = got \o r.bytes
              /\ cache' = r.io.cache
              /\ trace' = r.io.trace
    /\ UNCHANGED <<device, decoderVars, timeVars, vfat, chain, dirVars>>

NextFile == Read

SpecFile == InitFile /\ [][NextFile]_vars

(***************************************************************************)
(* Directories on the volume: one 32-byte record fills one cluster         *)
(***************************************************************************)
LE16Bytes(x) == <<x % 256, x \div 256>>
Pad(chars, n) == chars \o [i \in 1..(n - Len(chars)) |-> 32]

\* The DOS date of 1980-01-01, in every date field of the fixtures.
Epoch == 33

\* The bytes of a VFatRegularDirEntry.
RegularRecord(first, name, ext, attr, cluster, size) ==
    <<first>> \o Tail(Pad(name, 8)) \o Pad(ext, 3) \o <<attr, 0, 0>>
        \o LE16Bytes(0) \o LE16Bytes(Epoch) \o LE16Bytes(Epoch)
        \o LE16Bytes(cluster \div 65536) \o LE16Bytes(0) \o LE16Bytes(Epoch)
        \o LE16Bytes(cluster % 65536) \o LE32Bytes(size)

RECURSIVE UnitBytes(_)
UnitBytes(units) ==
    IF units = <<>> THEN <<>> ELSE LE16Bytes(Head(units)) \o UnitBytes(Tail(units))

\* The bytes of a VFatLfnDirEntry holding 13 code units.
LfnRecord(seq, attr, units) ==
    <<seq>> \o UnitBytes(SubSeq(units, 1, 5)) \o <<attr, 0, 0>>
        \o UnitBytes(SubSeq(units, 6, 11)) \o <<0, 0>> \o UnitBytes(SubSeq(units, 12, 13))

\* A name fragment: the units, then 0x0000 units.
Fragment(units) == [k \in 1..LfnUnits |-> IF k <= Len(units) THEN units[k] ELSE 0]

EndRecord == Zeros(DirEntrySize)
FileA == RegularRecord(65, <<65>>, <<84, 88, 84>>, 32, 10, 5)       \* A.TXT, a file
DirB == RegularRecord(66, <<66>>, <<>>, 16, 6, 0)                    \* B, a directory
FileC == RegularRecord(67, <<67>>, <<>>, 32, 11, 40)                 \* C, a file
DeletedA == RegularRecord(229, <<65>>, <<84, 88, 84>>, 32, 10, 5)
Blank == RegularRecord(32, <<32>>, <<>>, 32, 10, 5)                  \* a name of blanks
\* "ab", a 0xFFFF terminator and a unit after it; ordinal 1, last fragment
LfnAb == LfnRecord(65, 15, Fragment(<<97, 98, 65535, 99>>))
LfnDeleted == LfnRecord(229, 15, Fragment(<<97, 98>>))
LfnOrdinal0 == LfnRecord(64, 15, Fragment(<<97, 98>>))

DirRecords == {FileA, DirB, DeletedA, Blank, LfnAb, LfnDeleted, LfnOrdinal0}

\* The longest directory, without its 0x00 record.
MaxRecs == 3

RECURSIVE RecordLists(_)
RecordLists(n) ==
    IF n = 0 THEN {<<>>}
    ELSE RecordLists(n - 1)
            \cup {Append(l, r) : l \in {x \in RecordLists(n - 1) : Len(x) = n - 1},
                                 r \in DirRecords}

\* A directory ends with a 0x00 record, or fills its last cluster.
Directories ==
    {l \o <<EndRecord>> : l \in RecordLists(MaxRecs)}
        \cup (RecordLists(MaxRecs) \ {<<>>})

\* The FAT of a volume whose chains are runs of consecutive clusters:
\* ends is the set of the last clusters of the runs.
RunTable(used, ends) ==
    [c \in FatClusters |->
        CASE c = 0 -> FatEoc
          [] c = 1 -> 268435455
          [] c \in ends -> FatEoc
          [] c \in used -> c + 1
          [] OTHER -> FatFree]

\* The cluster contents: the records of dir from cluster at on.
WithRecords(data, at, dir) ==
    [c \in DataClusters |->
        IF at <= c /\ c < at + Len(dir) THEN dir[c - at + 1] ELSE data[c]]

\* A volume whose root directory is dir.
DirVolume(dir) ==
    LET root == Geometry.root_dir_cluster
    IN  Volume(RunTable(root..(root + Len(dir) - 1), {root + Len(dir) - 1}),
               WithRecords(FileData, root, dir))

\* A name to look for: to_str() gives None when utf8 is FALSE.
Utf8(chars) == [utf8 |-> TRUE, chars |-> chars]
NotUtf8 == [utf8 |-> FALSE, chars |-> <<>>]

\* a.txt, B, ab, zz, and a name that is not UTF-8
Queries == {Utf8(<<97, 46, 116, 120, 116>>), Utf8(<<66>>), Utf8(<<97, 98>>),
            Utf8(<<122, 122>>), NotUtf8}

(***************************************************************************)
(* SpecDir: the entry iterator and Dir::find on the root directory         *)
(***************************************************************************)
\* The calls of next that yield an entry, on one iterator.
MaxYield == 3

InitDir ==
    /\ DecoderIdle /\ TimeIdle /\ DirIdle
    /\ \E dir \in Directories : device = DirVolume(dir)
    /\ vfat = Geometry
    /\ cache = {}
    /\ trace = NoTrace
    /\ chain = NoChain
    /\ file = NoFile
    /\ ret = NoRet
    /\ got = <<>>

Entries ==
    /\ ~iter.live
    /\ \E r \in {Dir_entries(vfat, device, IoOf, Dir_root(vfat))} :
          /\ r.res.ok
          /\ iter' = r.res.val
          /\ cache' = r.io.cache
          /\ trace' = r.io.trace
    /\ UNCHANGED <<device, decoderVars, timeVars, vfat, chain, file, ret, got,
                   item, yielded, found, opened>>

IterNext ==
    /\ iter.live
    /\ item.tag # "Panic"
    /\ Len(yielded) < MaxYield
    /\ \E n \in {EntryIter_next(iter.entries, iter.index)} :
          /\ iter' = [iter EXCEPT !.index = n.index]
          /\ item' = [tag |-> n.tag, entry |-> n.entry]
          /\ yielded' = IF n.tag = "Some" THEN Append(yielded, n.index) ELSE yielded
    /\ UNCHANGED <<device, decoderVars, timeVars, fsVars, found, opened>>

Find ==
    /\ found = NoFound
    /\ \E q \in Queries, f \in Faults :
          \E r \in {Dir_find(vfat, [device EXCEPT !.fails = f], IoOf, Dir_root(vfat), q)} :
              /\ found' = [query |-> q, faults |-> f, res |-> r.res,
                           gets |-> r.io.trace.gets]
              /\ cache' = r.io.cache
              /\ trace' = r.io.trace
    /\ UNCHANGED <<device, decoderVars, timeVars, vfat, chain, file, ret, got,
                   iter, item, yielded, opened>>

NextDir == Entries \/ IterNext \/ Find

SpecDir == InitDir /\ [][NextDir]_vars

(***************************************************************************)
(* SpecOpen: FileSystem::open on a root directory with one subdirectory    *)
(***************************************************************************)
\* The longest directory of the tree, without its 0x00 record.
MaxTreeRecs == 2
\* The most names after the root in a path.
MaxDepth == 2

RootRecords == {FileA, DirB, DeletedA}
SubRecords == {FileA, FileC, DeletedA}

RECURSIVE ListsOver(_, _)
ListsOver(records, n) ==
    IF n = 0 THEN {<<>>}
    ELSE ListsOver(records, n - 1)
            \cup {Append(l, r) : l \in {x \in ListsOver(records, n - 1) : Len(x) = n - 1},
                                 r \in records}

\* The root directory at the root cluster, the directory B at DirB's
\* cluster, the one-cluster files A.TXT and C at theirs.
TreeVolume(rootDir, subDir) ==
    LET root == Geometry.root_dir_cluster
        sub == Regular_cluster(DirB)
        a == Regular_cluster(FileA)
        c == Regular_cluster(FileC)
    IN  Volume(RunTable((root..(root + Len(rootDir) - 1))
                            \cup (sub..(sub + Len(subDir) - 1)) \cup {a, c},
                        {root + Len(rootDir) - 1, sub + Len(subDir) - 1, a, c}),
               WithRecords(WithRecords(FileData, root, rootDir), sub, subDir))

\* std::path::Component
RootDir == [kind |-> "RootDir", name |-> NotUtf8]
CurDir == [kind |-> "CurDir", name |-> NotUtf8]
Normal(name) == [kind |-> "Normal", name |-> name]

\* b, a.txt, c, and a name that is not UTF-8
PathNames == {Utf8(<<98>>), Utf8(<<97, 46, 116, 120, 116>>), Utf8(<<99>>), NotUtf8}

RECURSIVE NamesUpTo(_)
NamesUpTo(n) ==
    IF n = 0 THEN {<<>>}
    ELSE NamesUpTo(n - 1)
            \cup {Append(l, Normal(q)) : l \in {x \in NamesUpTo(n - 1) : Len(x) = n - 1},
                                         q \in PathNames}

\* Absolute paths of names, and the path "/." .
Paths == {<<RootDir>> \o l : l \in NamesUpTo(MaxDepth)} \cup {<<RootDir, CurDir>>}

InitOpen ==
    /\ DecoderIdle /\ TimeIdle /\ DirIdle
    /\ \E rootDir \in ListsOver(RootRecords, MaxTreeRecs),
          subDir \in ListsOver(SubRecords, MaxTreeRecs) :
          device = TreeVolume(rootDir \o <<EndRecord>>, subDir \o <<EndRecord>>)
    /\ vfat = Geometry
    /\ cache = {}
    /\ trace = NoTrace
    /\ chain = NoChain
    /\ file = NoFile
    /\ ret = NoRet
    /\ got = <<>>

Open ==
    /\ opened = NoOpened
    /\ \E path \in Paths, f \in Faults :
          \E r \in {FileSystem_open(vfat, [device EXCEPT !.fails = f], IoOf, path)} :
              /\ opened' = [path |-> path, faults |-> f, res |-> r.res]
              /\ cache' = r.io.cache
              /\ trace' = r.io.trace
    /\ UNCHANGED <<device, decoderVars, timeVars, vfat, chain, file, ret, got,
                   iter, item, yielded, found>>

NextOpen == Open

SpecOpen == InitOpen /\ [][NextOpen]_vars

(***************************************************************************)
(* SpecNames: the names of the entries that the iterator yields            *)
(***************************************************************************)
\* "HELLO O\0" with the extension "T X": HELLO.T
FileHello == RegularRecord(72, <<72, 69, 76, 76, 79, 32, 79, 0>>, <<84, 32, 88>>, 32, 10, 5)
\* "C" with an extension that starts with 0x00: C
FileNulExt == RegularRecord(67, <<67>>, <<0, 88, 88>>, 32, 11, 40)

\* A record whose first byte is 0x00 and whose attribute byte is 0x0F.
EndLfn == LfnRecord(0, 15, Fragment(<<>>))

NameRecords == {FileA, DirB, FileHello, FileNulExt, Blank, DeletedA, LfnAb, EndLfn}

\* The longest directory of names, without its 0x00 record.
MaxNameRecs == 2

InitNames ==
    /\ DecoderIdle /\ TimeIdle /\ DirIdle
    /\ \E l \in ListsOver(NameRecords, MaxNameRecs) : device = DirVolume(l \o <<EndRecord>>)
    /\ vfat = Geometry
    /\ cache = {}
    /\ trace = NoTrace
    /\ chain = NoChain
    /\ file = NoFile
    /\ ret = NoRet
    /\ got = <<>>

NextNames == Entries \/ IterNext

SpecNames == InitNames /\ [][NextNames]_vars

(***************************************************************************)
(* Claims                                                                  *)
(***************************************************************************)
Sector0 == device.sectors[0]
Sector0Boot(i) == Sector0[PartitionTableOffset + PartitionEntrySize * i + 1]
Sector0Type(i) == Sector0[PartitionTableOffset + PartitionEntrySize * i + 5]
Sector0BadBoots ==
    {i \in 0..3 : Sector0Boot(i) # 0 /\ Sector0Boot(i) # 128}
Sector0Fat32 == {i \in 0..3 : Sector0Type(i) \in {11, 12}}

\* C4: MasterBootRecord::from decides by priority: a device error gives
\* Io(err); a read shorter than 512 bytes gives Io(UnexpectedEof); then bytes
\* 510-511 other than 0x55,0xAA give BadSignature; then the lowest partition
\* index whose boot byte is neither 0x00 nor 0x80 gives
\* UnknownBootIndicator(i); otherwise the MBR is returned.
C4_MbrPriority ==
    mbr # NotRun =>
        IF 0 \in device.fails THEN mbr = Err(IoError(device.errkind))
        ELSE IF Len(Sector0) < 512 THEN mbr = Err(IoError("UnexpectedEof"))
        ELSE IF <<Sector0[511], Sector0[512]>> # <<85, 170>>
            THEN mbr = Err([tag |-> "BadSignature"])
        ELSE IF Sector0BadBoots # {}
            THEN /\ ~mbr.ok
                 /\ mbr.err.tag = "UnknownBootIndicator"
                 /\ mbr.err.index \in Sector0BadBoots
                 /\ \A j \in Sector0BadBoots : mbr.err.index <= j
        ELSE /\ mbr.ok
             /\ \A i \in 0..3 :
                   /\ mbr.val.partition_table[i].boot = Sector0Boot(i)
                   /\ mbr.val.partition_table[i].part_type = Sector0Type(i)

\* C4 witness: a full sector 0 with a good signature and two bad boot
\* indicators, of which the decoder reported the lower one, not the first
\* record.
C4_Witness ==
    /\ mbr # NotRun
    /\ ~mbr.ok
    /\ mbr.err.tag = "UnknownBootIndicator"
    /\ mbr.err.index = 2
    /\ Sector0BadBoots = {2, 3}

\* C5: first_fat32 returns the lowest-indexed partition record whose type
\* byte is 0x0B or 0x0C, and fails with NotFound when there is none; mounting
\* then fails with that error.
C5_FirstFat32 ==
    /\ partition # NotRun =>
          IF Sector0Fat32 # {}
          THEN /\ partition.ok
               /\ \E i \in Sector0Fat32 :
                     /\ \A j \in Sector0Fat32 : i <= j
                     /\ partition.val = mbr.val.partition_table[i]
          ELSE /\ ~partition.ok
               /\ partition.err.kind = "NotFound"
    /\ (mounted # NotRun /\ 0 \notin device.fails /\ Len(Sector0) = 512
          /\ <<Sector0[511], Sector0[512]>> = <<85, 170>>
          /\ Sector0BadBoots = {} /\ Sector0Fat32 = {}) =>
          /\ ~mounted.ok
          /\ mounted.err.kind = "NotFound"

Sector1 == device.sectors[1]

\* C6: BiosParameterBlock::from accepts a boot sector if and only if its
\* bytes 510-511 are 0x55,0xAA, rejects any other with BadSignature, and no
\* other byte of the sector influences acceptance.
C6_EbpbTrailer ==
    (ebpb # NotRun /\ 1 \notin device.fails) =>
        IF <<Sector1[511], Sector1[512]>> = <<85, 170>>
        THEN ebpb.ok
        ELSE ebpb = Err([tag |-> "BadSignature"])

\* C8: the accessors return the bit fields of the on-disk words unchanged
\* (year offset by 1980, seconds doubled), so a validly encoded timestamp
\* gives month in [1,12], day in [1,31], hour in [0,23], minute in [0,59],
\* second in [0,58].
C8_TimestampFields ==
    fields # NoFields =>
        LET d == timestamp.date
            t == timestamp.time
            monthField == (d \div 32) % 16
            dayField == d % 32
            hourField == t \div 2048
            minuteField == (t \div 32) % 64
            secondField == t % 32
        IN  /\ fields.year = 1980 + (d \div 512)
            /\ fields.month = monthField
            /\ fields.day = dayField
            /\ fields.hour = hourField
            /\ fields.minute = minuteField
            /\ fields.second = 2 * secondField
            /\ (monthField \in 1..12 /\ dayField \in 1..31 /\ hourField \in 0..23
                  /\ minuteField \in 0..59 /\ secondField \in 0..29) =>
                  /\ fields.month \in 1..12
                  /\ fields.day \in 1..31
                  /\ fields.hour \in 0..23
                  /\ fields.minute \in 0..59
                  /\ fields.second \in 0..58

\* The FAT and the clusters as they lie on the device, read without the
\* driver: slot c of the first FAT, the two sectors of cluster c, and the
\* walk from a start cluster to the first slot that is not Data.
DiskFatSlot(c) == LE32(device.sectors[3 + (c \div 4)], 4 * (c % 4))
DiskStatus(c) == FatEntry_status(DiskFatSlot(c)).tag
DiskNext(c) == DiskFatSlot(c) % 268435456
DiskClusterSectors(c) == {9 + 2 * (c - 2), 10 + 2 * (c - 2)}
DiskCluster(c) == device.sectors[9 + 2 * (c - 2)] \o device.sectors[10 + 2 * (c - 2)]

RECURSIVE DiskWalk(_, _)
DiskWalk(c, path) ==
    IF DiskStatus(c) # "Data" THEN [path |-> Append(path, c), end |-> DiskStatus(c)]
    ELSE IF \E i \in 1..Len(path) : path[i] = c THEN [path |-> path, end |-> "Cycle"]
    ELSE DiskWalk(DiskNext(c), Append(path, c))

RECURSIVE DiskData(_)
DiskData(path) ==
    IF path = <<>> THEN <<>> ELSE DiskCluster(Head(path)) \o DiskData(Tail(path))

Last(path) == path[Len(path)]
BadEnds == {"Free", "Bad", "Reserved"}
IsOtherError(res) == ~res.ok /\ res.err = IoError("Other")

\* C7 as stated: read_chain returns an I/O error of kind Other exactly when
\* the first FAT entry reached that is not Data is Free, Bad or Reserved,
\* returns Ok only when it is Eoc, and never reads the cluster whose entry
\* is Free, Bad or Reserved.  (Calls that meet no device fault.)
C7_OtherExactlyOnBadEnd ==
    (chain.res # NotRun /\ chain.faults = {}) =>
        LET w == DiskWalk(chain.start, <<>>)
        IN  w.end # "Cycle" =>
              /\ IsOtherError(chain.res) <=> w.end \in BadEnds
              /\ chain.res.ok => w.end = "Eoc"
              /\ w.end \in BadEnds =>
                    \A i \in 1..Len(trace.gets) :
                        trace.gets[i] \notin DiskClusterSectors(Last(w.path))

\* C7 as amended: without a device fault, read_chain returns an I/O error
\* of kind Other exactly when the first entry that is not Data is Free, Bad
\* or Reserved, or when start is cluster 0 or 1, which has no data index;
\* it returns Ok only when that entry is Eoc; with or without a fault, the
\* cluster whose entry is Free, Bad or Reserved is never read.
C7_OtherOnBadEndOrBadStart ==
    chain.res # NotRun =>
        LET w == DiskWalk(chain.start, <<>>)
        IN  w.end # "Cycle" =>
              /\ chain.faults = {} =>
                    (IsOtherError(chain.res) <=> (w.end \in BadEnds \/ chain.start < 2))
              /\ chain.res.ok => (w.end = "Eoc" /\ chain.start >= 2)
              /\ w.end \in BadEnds =>
                    \A i \in 1..Len(trace.gets) :
                        trace.gets[i] \notin DiskClusterSectors(Last(w.path))

\* C7 witness: cluster 2 links to cluster 3, whose entry is Bad; the call
\* read cluster 2 and failed with kind Other.
C7_Witness ==
    /\ chain.res # NotRun
    /\ chain.faults = {}
    /\ chain.start = 2
    /\ DiskStatus(2) = "Data" /\ DiskNext(2) = 3 /\ DiskStatus(3) = "Bad"
    /\ IsOtherError(chain.res)
    /\ \E i \in 1..Len(trace.gets) : trace.gets[i] \in DiskClusterSectors(2)

\* The file's chain ends in Eoc, has only data clusters, and holds at least
\* size bytes.
FileChain == DiskWalk(file.cluster, <<>>)
FileChainGood ==
    /\ file.cluster >= 2
    /\ FileChain.end = "Eoc"
    /\ Len(DiskData(FileChain.path)) >= file.size

\* C2: on a file of size S whose chain ends in Eoc and holds at least S
\* bytes, every read that meets no device fault returns
\* min(S - cursor, dst.len()) bytes, equal to the chain bytes from the
\* cursor on, and advances the cursor by that count (0 at the end); the
\* bytes returned so far are the chain's first cursor bytes, so at the end
\* they are exactly its first S bytes, whatever the chunk sizes were.
C2_ReadChunks ==
    (ret.res # NotRun /\ FileChainGood) =>
        LET data == DiskData(FileChain.path)
            n == Min(file.size - ret.before, ret.len)
        IN  /\ file.read_ptr <= file.size
            /\ got = SubSeq(data, 1, file.read_ptr)
            /\ ret.faults = {} =>
                  /\ ret.res = Ok(n)
                  /\ ret.bytes = SubSeq(data, ret.before + 1, ret.before + n)
                  /\ file.read_ptr = ret.before + n
                  /\ ret.before = file.size => ret.res = Ok(0)

\* C2 witness: a file of two clusters and five bytes, read to its end in
\* chunks of 20 bytes that straddle the cluster boundaries.
C2_Witness ==
    /\ FileChainGood
    /\ file.size = 2 * ClusterBytes + 5
    /\ ret.len = 20
    /\ ret.before = 60
    /\ ret.res = Ok(9)
    /\ file.read_ptr = file.size
    /\ Len(got) = file.size

\* C9: on a file of size 0, whatever its first cluster, every read returns
\* Ok(0) for every dst length, looks up no FAT entry, accesses neither the
\* cache nor the device, and leaves the cursor at 0.
C9_EmptyFileReadsNothing ==
    (file.size = 0 /\ ret.res # NotRun) =>
        /\ ret.res = Ok(0)
        /\ ret.bytes = <<>>
        /\ trace = NoTrace
        /\ cache = {}
        /\ file.read_ptr = 0

\* C9 witness: an empty file whose first cluster is 3, read with a dst of
\* 96 bytes.
C9_Witness ==
    /\ file.size = 0
    /\ file.cluster = 3
    /\ ret.res = Ok(0)
    /\ ret.len = 3 * ClusterBytes

\* The records of the directory whose chain starts at cluster c, as on disk.
DiskRecords(c) == CastEntries(DiskData(DiskWalk(c, <<>>).path))
DiskTerminated(c) == \E i \in 1..Len(DiskRecords(c)) : DiskRecords(c)[i][1] = 0

\* A well-formed directory: it ends with a 0x00 record, and every record
\* before that is deleted, a name fragment of ordinal 1 to 20, or a regular
\* record whose name does not start with a blank.
DiskWellFormed(c) ==
    /\ DiskTerminated(c)
    /\ \A i \in 1..Len(DiskRecords(c)) :
          LET rec == DiskRecords(c)[i]
          IN  \/ rec[1] \in {0, 229}
              \/ Unknown_is_lfn(rec) /\ rec[1] % 32 \in 1..LfnEntries
              \/ ~Unknown_is_lfn(rec) /\ rec[1] # 32

\* Enumeration order: each call of next resumes after the record that the
\* call before it returned.
RECURSIVE Enumeration(_, _)
Enumeration(entries, index) ==
    Bind(EntryIter_next(entries, index),
         LAMBDA n :
           IF n.tag # "Some" THEN <<>>
           ELSE <<n.entry>> \o Enumeration(entries, n.index + 1))

\* The first entry of the directory at cluster c whose name is name but for
\* the case of ASCII letters, or NotFound.
FirstMatch(c, name) ==
    LET all == Enumeration(DiskRecords(c), 0)
        hits == {k \in 1..Len(all) : eq_ignore_ascii_case(all[k].name, name)}
    IN  IF hits = {} THEN Err(IoError("NotFound"))
        ELSE Ok(all[CHOOSE k \in hits : \A h \in hits : k <= h])

\* C1: repeated calls of EntryIter::next on a directory that ends with a
\* 0x00 record yield one entry per record and never the same record twice:
\* the records yielded are in strictly increasing on-disk order, and after
\* a call that yields an entry the iterator stands past the record it
\* yielded.  The code returns the entry without advancing self.index.
C1_NoRecordYieldedTwice ==
    (iter.live /\ DiskTerminated(Geometry.root_dir_cluster)) =>
        /\ \A k \in 1..(Len(yielded) - 1) : yielded[k] < yielded[k + 1]
        /\ item.tag = "Some" => iter.index > yielded[Len(yielded)]

\* C3: Dir::find on a well-formed directory always
\* returns: the first entry in enumeration order whose name equals the
\* query but for ASCII case, an error of kind NotFound when no entry
\* matches, and InvalidInput, without reading the directory, for a query
\* that is not UTF-8.  (Calls that meet no device fault.)  The code loops
\* for ever on the first entry whose name differs from the query.
C3_FindFirstMatchOrNotFound ==
    (found.res # NotRun /\ found.faults = {}
        /\ DiskWellFormed(Geometry.root_dir_cluster)) =>
        IF ~found.query.utf8
        THEN found.res = Err(IoError("InvalidInput")) /\ found.gets = <<>>
        ELSE found.res = FirstMatch(Geometry.root_dir_cluster, found.query.chars)

\* The entry that the names of a path lead to from entry.
RECURSIVE Resolve(_, _)
Resolve(entry, comps) ==
    IF comps = <<>> THEN Ok(entry)
    ELSE IF entry.kind # "Dir" THEN Err(IoError("NotFound"))
    ELSE Bind(FirstMatch(entry.cluster, Head(comps).name.chars),
              LAMBDA f : IF ~f.ok THEN f ELSE Resolve(f.val, Tail(comps)))

NormalPath(path) ==
    /\ path # <<>> /\ Head(path) = RootDir
    /\ \A k \in 2..Len(path) : path[k].kind = "Normal" /\ path[k].name.utf8

\* C10: open of an absolute path with names c1..cn starts at the root and
\* applies find(ci) to the entry reached so far, in order: it fails with
\* NotFound when a name is applied to a File or matches no entry, and on
\* success returns the entry reached, whose name equals cn but for ASCII
\* case (the root entry for n = 0).  (Calls that meet no device fault.)
\* The code never returns when find loops on an entry that does not match.
C10_OpenResolvesPath ==
    (opened.res # NotRun /\ opened.faults = {} /\ NormalPath(opened.path)) =>
        /\ opened.res = Resolve(Dir_root(Geometry), Tail(opened.path))
        /\ (opened.res.ok /\ Len(opened.path) > 1) =>
              eq_ignore_ascii_case(opened.res.val.name,
                                   opened.path[Len(opened.path)].name.chars)

\* The bytes of arr before its first 0x00 or 0x20 byte.
AsciiStop(arr) ==
    CHOOSE n \in 0..Len(arr) :
        /\ \A i \in 1..n : arr[i] \notin {0, 32}
        /\ n = Len(arr) \/ arr[n + 1] \in {0, 32}
AsciiPrefix(arr) == SubSeq(arr, 1, AsciiStop(arr))

\* Record j (from 0) of entries has name fragments: a non-deleted LFN record
\* stands before it with only LFN records and deleted records in between.
IsSkipped(rec) == Unknown_is_lfn(rec) \/ Unknown_is_deleted(rec)
HasFragments(entries, j) ==
    \E k \in 0..(j - 1) :
        /\ Unknown_is_lfn(entries[k + 1]) /\ ~Lfn_is_deleted(entries[k + 1])
        /\ \A m \in (k + 1)..(j - 1) : IsSkipped(entries[m + 1])

\* The record that the last call of next returned an entry for.
LastYielded == iter.entries[yielded[Len(yielded)] + 1]

\* C11: ascii_to_string gives the bytes before the first 0x00 or 0x20 byte
\* of its input, whatever follows that byte, and None when there are none;
\* a regular record yielded with no name fragment collected before it has
\* the name ascii_to_string(name), followed by "." and
\* ascii_to_string(ext) unless that is None.
C11_ShortNames ==
    /\ \A i \in 1..Len(iter.entries) :
          \A arr \in {Regular_name(iter.entries[i]), Regular_ext(iter.entries[i])} :
              ascii_to_string(arr) =
                  IF AsciiPrefix(arr) = <<>> THEN None ELSE Some(AsciiPrefix(arr))
    /\ (item.tag = "Some" /\ ~Unknown_is_lfn(LastYielded)
            /\ ~HasFragments(iter.entries, yielded[Len(yielded)])) =>
          LET name == AsciiPrefix(Regular_name(LastYielded))
              ext == AsciiPrefix(Regular_ext(LastYielded))
          IN  /\ name # <<>>
              /\ item.entry.name = IF ext = <<>> THEN name ELSE name \o <<46>> \o ext

\* HELLO.T is yielded for "HELLO O\0" "T X"; C for an extension of 0x00 XX.
C11_Witness ==
    /\ item.tag = "Some"
    /\ \/ LastYielded = FileHello /\ item.entry.name = <<72, 69, 76, 76, 79, 46, 84>>
       \/ LastYielded = FileNulExt /\ item.entry.name = <<67>>

\* The LFN records that stand immediately before record j (from 0): the
\* non-deleted ones of the unbroken run of LFN records that ends at j - 1.
FragmentsBefore(entries, j) ==
    {k \in 0..(j - 1) :
        /\ ~Lfn_is_deleted(entries[k + 1])
        /\ \A m \in k..(j - 1) : Unknown_is_lfn(entries[m + 1])}

\* The 260 code units of those records, each fragment at the offset of its
\* ordinal; of two fragments with one ordinal the later on disk stays.
UnitsBefore(entries, j) ==
    [u \in 1..(LfnUnits * LfnEntries) |->
        LET ordinal == (u - 1) \div LfnUnits + 1
            ks == {k \in FragmentsBefore(entries, j) : entries[k + 1][1] % 32 = ordinal}
            last == CHOOSE k \in ks : \A h \in ks : h <= k
            units == Lfn_name1(entries[last + 1]) \o Lfn_name2(entries[last + 1])
                        \o Lfn_name3(entries[last + 1])
        IN  IF ks = {} THEN 0 ELSE units[((u - 1) % LfnUnits) + 1]]

\* C12: a regular record that stands immediately after non-deleted LFN
\* records (of ordinals 1 to 20) is yielded with the name built from their
\* fragments: each at the offset of its ordinal, whatever their order on
\* disk, decoded as UTF-16 up to the first 0x0000 or 0xFFFF unit, unpaired
\* surrogates as U+FFFD.  The code yields the record a second time, with
\* its short name: the call after the one that yielded it starts at the
\* record itself and collects no fragment.
C12_NameFromFragments ==
    (item.tag = "Some" /\ ~Unknown_is_lfn(LastYielded)
        /\ yielded[Len(yielded)] - 1 \in FragmentsBefore(iter.entries, yielded[Len(yielded)])
        /\ \A k \in FragmentsBefore(iter.entries, yielded[Len(yielded)]) :
              iter.entries[k + 1][1] % 32 \in 1..LfnEntries) =>
        item.entry.name = ucs_2_to_string(UnitsBefore(iter.entries, yielded[Len(yielded)]))

\* C13: for a chain of data clusters c1..ck whose last FAT entry is Eoc and
\* any initial contents of dst, read_chain leaves dst equal to its initial
\* contents followed by the data of c1..ck in chain order, and returns
\* k * bytes_per_sector * sectors_per_cluster.  (Calls that meet no device
\* fault.)  The code reads every cluster into buf[read..], with read
\* counted from 0, so the bytes already in dst are overwritten.
C13_AppendsToDst ==
    (chain.res # NotRun /\ chain.faults = {}) =>
        LET w == DiskWalk(chain.start, <<>>)
        IN  (w.end = "Eoc" /\ \A i \in 1..Len(w.path) : w.path[i] >= 2) =>
              /\ chain.res = Ok(Len(w.path) * ClusterBytes)
              /\ chain.dst = chain.before \o DiskData(w.path)

\* C15: over any sequence of File::read calls on one handle the cursor stays
\* within 0..size and never decreases, the size never changes, and a read
\* that does not return Ok (a corrupt chain, a device failure) leaves the
\* cursor where it was.
C15_CursorInvariant ==
    /\ [](file.read_ptr \in 0..file.size)
    /\ [][/\ file'.size = file.size
          /\ file'.read_ptr >= file.read_ptr
          /\ ~ret'.res.ok => file' = file]_vars

\* A read of a file that is not empty fails on a device fault; another
\* fails on a chain that ends in a free cluster.
C15_Witness ==
    /\ file.size > 0 /\ ~ret.res.ok /\ ret.res.err.tag = "Io"
    /\ file.read_ptr = ret.before
    /\ ret.faults # {} \/ ret.res.err.kind = "Other"

\* The record at the iterator's index after a call of next.
CallMade == iter.live /\ item.tag # "NotRun"
AtIndex == iter.entries[iter.index + 1]

\* C14: every record the iterator reads is classified by its first byte
\* before its attribute byte: at a record whose first byte is 0x00 the call
\* returns None, whatever the attribute byte, and a record with the LFN
\* attribute is never yielded as an entry, also when it follows a deleted
\* record.  The code tests the attribute byte first at the start of a call,
\* and never tests it after it has skipped a deleted record.
C14_FirstByteBeforeAttribute ==
    /\ (CallMade /\ iter.index < Len(iter.entries) /\ Unknown_is_end(AtIndex)) =>
          item.tag = "None"
    /\ item.tag = "Some" => ~Unknown_is_lfn(LastYielded)

\* C16: the 13 units of a non-deleted LFN record are written inside the
\* 260-unit accumulator whatever its sequence byte is: no call of next
\* panics at a non-deleted LFN record whose ordinal is 0 or more than 20.
\* The code computes (0 - 1) * 13 in usize for ordinal 0, and slices the
\* accumulator beyond 260 for ordinals 21 to 31.
C16_FragmentInsideAccumulator ==
    (CallMade /\ item.tag = "Panic" /\ iter.index < Len(iter.entries)) =>
        ~(/\ Unknown_is_lfn(AtIndex) /\ ~Lfn_is_deleted(AtIndex)
          /\ AtIndex[1] % 32 \notin 1..LfnEntries)

====
